---- MODULE Spec2Model ----
(***************************************************************************)
(* Text cursor / selection component                                       *)
(* (lib/rust/ensogl/component/text/src/component/selection.rs).            *)
(*                                                                         *)
(* Lengths are integer pixels, times integer milliseconds.  Alpha values   *)
(* are exact rationals written as integer numerators over AlphaDen.  The   *)
(* not_blinking weight is an integer in 0..NbOne standing for 0.0..1.0.    *)
(***************************************************************************)
EXTENDS Integers, Sequences, FiniteSets, TLC

(* ---------------------------- shape constants ------------------------- *)

CURSOR_PADDING == 4
CURSOR_WIDTH == 2
\* CURSOR_ALPHA = 0.8, SELECTION_ALPHA = 0.3, written in tenths.
CURSOR_ALPHA_10 == 8
SELECTION_ALPHA_10 == 3
CURSORS_SPACING == 1
BLINK_SLOPE_IN_DURATION == 200
BLINK_SLOPE_OUT_DURATION == 200
BLINK_ON_DURATION == 300
BLINK_OFF_DURATION == 300
BLINK_PERIOD ==
    BLINK_SLOPE_IN_DURATION + BLINK_SLOPE_OUT_DURATION + BLINK_ON_DURATION + BLINK_OFF_DURATION

(* ------------------------------- bounds -------------------------------- *)

\* The value standing for not_blinking = 1.0.
NbOne == 8
\* Milliseconds per animation frame, largest number of frames in one tick,
\* and the last clock value explored.
FrameMs == 400
MaxDt == 1
MaxTime == 800
\* Input values offered to set_width and set_position_target.
WidthUnit == 4
PosUnit == 4
PosDy == 2
\* flip_sides is explored while positions stay within -MaxPos..MaxPos.
MaxPos == 5
\* Elapsed times explored for the alpha function alone.
MaxElapsed == 2100
\* Frames left to the animations after the last width input.
SettleFrames == 12

\* Input values offered to set_ascender and set_descender.
AscenderUnit == 6
DescenderUnit == 2
\* Glyphs alive at construction and the longest list given to
\* set_attached_glyphs; glyph g sits at x = g * GlyphStep and advances by
\* GlyphAdvance.
MaxGlyphs == 2
MaxAttached == 2
GlyphStep == 3
GlyphAdvance == 2

Widths == {-WidthUnit, 0, WidthUnit}
Ascenders == {0, AscenderUnit}
Descenders == {0, -DescenderUnit}
GlyphIds == 1..MaxGlyphs
GlyphLists == UNION {[1..n -> GlyphIds] : n \in 0..MaxAttached}
\* Colours offered to set_color.
MaxColor == 1
Colors == 0..MaxColor
\* Frames of the sprite demo explored.
MaxFrames == 1500
\* Tuples given to field_at: up to MaxArity fields, each in 0..MaxField.
MaxArity == 3
MaxField == 2
Tuples == UNION {[1..n -> 0..MaxField] : n \in 0..MaxArity}
Positions == {<<0, 0>>, <<PosUnit, PosDy>>}
Dts == 0..MaxDt

(* ------------------------------ arithmetic ----------------------------- *)

\* The(S) is the element of the one-element set S; Apply(F, x) is F(x) with
\* x evaluated once, before F.
The(S) == CHOOSE x \in S : TRUE
Apply(F(_), x) == The({F(v) : v \in {x}})

Abs(x) == IF x < 0 THEN -x ELSE x
Signum(x) == IF x < 0 THEN -1 ELSE 1
Max(a, b) == IF a >= b THEN a ELSE b
Min(a, b) == IF a <= b THEN a ELSE b
\* Integer division rounding toward zero.
Quot(a, b) == IF a >= 0 THEN a \div b ELSE -((-a) \div b)
VecAdd(a, b) == <<a[1] + b[1], a[2] + b[2]>>

(* -------------------------- animation channel -------------------------- *)
(* A damped spring with k = 1/4, c = 3/4 (critically damped) integrated at *)
(* one step per frame; a channel within SnapDistance of its target and     *)
(* slower than SnapSpeed snaps to the target and comes to rest.            *)

SnapDistance == 3
SnapSpeed == 1
SpringDiv == 4

Channel(v) == [value |-> v, velocity |-> 0, target |-> v]

AnimSetTarget(ch, t) == [ch EXCEPT !.target = t]

AnimSkip(ch) == [ch EXCEPT !.value = ch.target, !.velocity = 0]

AnimActive(ch) == ch.value # ch.target \/ ch.velocity # 0

AnimStep(ch) ==
    IF ~AnimActive(ch) THEN ch
    ELSE IF Abs(ch.target - ch.value) <= SnapDistance /\ Abs(ch.velocity) <= SnapSpeed
         THEN [ch EXCEPT !.value = ch.target, !.velocity = 0]
         ELSE LET vel == Quot(ch.velocity + (ch.target - ch.value), SpringDiv)
              IN  [ch EXCEPT !.velocity = vel, !.value = ch.value + vel]

RECURSIVE AnimTick(_, _)
AnimTick(ch, dt) ==
    IF dt = 0 THEN ch
    ELSE LET Rest(c) == AnimTick(c, dt - 1) IN Apply(Rest, Apply(AnimStep, ch))

\* A two-axis channel: both axes advance by the same dt on the same tick.
Axis(ch, i) == [value |-> ch.value[i], velocity |-> ch.velocity[i], target |-> ch.target[i]]
Channel2(v) == [value |-> v, velocity |-> <<0, 0>>, target |-> v]
AnimSkip2(ch) == [ch EXCEPT !.value = ch.target, !.velocity = <<0, 0>>]
AnimActive2(ch) == AnimActive(Axis(ch, 1)) \/ AnimActive(Axis(ch, 2))
AnimTick2(ch, dt) ==
    LET Join(xy) ==
            [value |-> <<xy[1].value, xy[2].value>>,
             velocity |-> <<xy[1].velocity, xy[2].velocity>>,
             target |-> ch.target]
    IN  Apply(Join, <<AnimTick(Axis(ch, 1), dt), AnimTick(Axis(ch, 2), dt)>>)

(* ----------------------------- sprite demo ----------------------------- *)
(* The list of sprites is kept by its length; the position of sprite i is  *)
(* a function of i, the length of the list and the time of the frame that  *)
(* positioned it, so the layout of the list is that length and that time.  *)

count == 100
cycle_duration == 300
pause_duration == 100
sprite_diff_per_cycle == 100

\* sprites.pop(), n times: popping an empty list does nothing. The n pops
\* are done as the first n \div 2 of them and then the others.
RECURSIVE Pop(_, _)
Pop(len, n) ==
    IF n = 0 THEN len
    ELSE IF n = 1 THEN (IF len > 0 THEN len - 1 ELSE 0)
    ELSE LET Rest(l) == Pop(l, n - n \div 2) IN Apply(Rest, Pop(len, n \div 2))

\* on_frame growing the list while iter <= cycle_duration.
OnFrame_GrowsOneFrameMore(d, time) ==
    LET iter1 == d.iter + 1
        grow == iter1 <= cycle_duration
        pause == ~grow /\ iter1 < pause_duration + cycle_duration
        shrink == ~grow /\ ~pause /\ iter1 < pause_duration + cycle_duration * 2
        len == IF grow THEN d.sprites + sprite_diff_per_cycle
               ELSE IF pause THEN d.sprites
               ELSE IF shrink THEN Pop(d.sprites, sprite_diff_per_cycle)
               ELSE 0
    IN  [iter |-> IF grow \/ pause \/ shrink THEN iter1 ELSE 0,
         sprites |-> len,
         frozen |-> pause,
         sprite1_y2 |-> IF pause THEN d.sprite1_y2 + 1 ELSE d.sprite1_y2,
         sprites_layout |-> IF ~pause /\ len > 0 THEN <<len, time>> ELSE d.sprites_layout]

\* on_frame positioning the sprites in the frozen frames as well.
OnFrame_NeverFrozen(d, time) ==
    LET iter1 == d.iter + 1
        grow == iter1 < cycle_duration
        pause == ~grow /\ iter1 < pause_duration + cycle_duration
        shrink == ~grow /\ ~pause /\ iter1 < pause_duration + cycle_duration * 2
        len == IF grow THEN d.sprites + sprite_diff_per_cycle
               ELSE IF pause THEN d.sprites
               ELSE IF shrink THEN Pop(d.sprites, sprite_diff_per_cycle)
               ELSE 0
    IN  [iter |-> IF grow \/ pause \/ shrink THEN iter1 ELSE 0,
         sprites |-> len,
         frozen |-> pause,
         sprite1_y2 |-> IF pause THEN d.sprite1_y2 + 1 ELSE d.sprite1_y2,
         sprites_layout |-> IF len > 0 THEN <<len, time>> ELSE d.sprites_layout]

\* on_frame: the counter advances, the list grows, rests, shrinks or is
\* reset, and unless the frame is frozen every sprite of the list is
\* positioned for the frame's time.
OnFrame(d, time) ==
    LET iter1 == d.iter + 1
        grow == iter1 < cycle_duration
        pause == ~grow /\ iter1 < pause_duration + cycle_duration
        shrink == ~grow /\ ~pause /\ iter1 < pause_duration + cycle_duration * 2
        len == IF grow THEN d.sprites + sprite_diff_per_cycle
               ELSE IF pause THEN d.sprites
               ELSE IF shrink THEN Pop(d.sprites, sprite_diff_per_cycle)
               ELSE 0
    IN  [iter |-> IF grow \/ pause \/ shrink THEN iter1 ELSE 0,
         sprites |-> len,
         frozen |-> pause,
         sprite1_y2 |-> IF pause THEN d.sprite1_y2 + 1 ELSE d.sprite1_y2,
         sprites_layout |-> IF ~pause /\ len > 0 THEN <<len, time>> ELSE d.sprites_layout]

(* ------------------------------- hlist --------------------------------- *)
(* A heterogeneous list is Nil or Cons(head, tail); a tuple is the         *)
(* sequence of its fields.                                                 *)

Nil == <<>>
Cons(h, t) == <<h, t>>

\* hlist::new![t, ts...] = Cons(t, hlist::new![ts...]).
RECURSIVE hlist_new(_)
hlist_new(ts) == IF ts = <<>> THEN Nil ELSE Cons(Head(ts), hlist_new(Tail(ts)))

RECURSIVE Reversed(_)
Reversed(ts) == IF ts = <<>> THEN <<>> ELSE Append(Reversed(Tail(ts)), Head(ts))

\* The conversion listing the fields last to first.
IntoHList_Reversed(t) == hlist_new(Reversed(t))

\* From<(T0, ..., Tn)> for the HList: hlist::new![t.0, ..., t.n].
IntoHList(t) == hlist_new(t)

\* GetHead and GetTail for Cons.
head(l) == l[1]
tail(l) == l[2]

\* field_at::<I> on an HList: the head, after I tails.
RECURSIVE GetFieldAt(_, _)
GetFieldAt(l, i) == IF i = 0 THEN head(l) ELSE GetFieldAt(tail(l), i - 1)

\* tuple.field_at::<I>().
TupleFieldAt(t, i) == GetFieldAt(IntoHList(t), i)

\* The number of Cons cells of an HList.
RECURSIVE FieldCount(_)
FieldCount(l) == IF l = Nil THEN 0 ELSE 1 + FieldCount(tail(l))

(* ------------------------------- shape --------------------------------- *)
(* The alpha computed by the shape for the time `time` (input_time), the   *)
(* start_time uniform and the not_blinking uniform.  Ramps are numerators  *)
(* over SmoothDen, blinking alpha over 10 * SmoothDen, alpha over AlphaDen.*)

SmoothDen == BLINK_SLOPE_OUT_DURATION * BLINK_SLOPE_OUT_DURATION * BLINK_SLOPE_OUT_DURATION
AlphaDen == 10 * SmoothDen * NbOne

\* smoothstep(e0, e1, x) = t*t*(3 - 2*t), t = clamp((x - e0) / (e1 - e0), 0, 1),
\* as a numerator over (e1 - e0)^3.
Smoothstep(e0, e1, x) ==
    LET k == Max(0, Min(e1 - e0, x - e0))
    IN  k * k * (3 * (e1 - e0) - 2 * k)

\* mix(x, y, a) = x * (1 - a) + y * a with a = nb / NbOne, as a numerator
\* over NbOne times the denominator of x and y.
Mix(x, y, nb) == x * (NbOne - nb) + y * nb

on_time == BLINK_ON_DURATION + BLINK_SLOPE_OUT_DURATION
off_time == on_time + BLINK_OFF_DURATION

slope_out(sampler) == Smoothstep(BLINK_ON_DURATION, on_time, sampler)
slope_in(sampler) == Smoothstep(off_time, BLINK_PERIOD, sampler)

\* The blink with its two ramps exchanged.
BlinkingAlphaAt_RampsExchanged(sampler) ==
    (SmoothDen + slope_out(sampler) - slope_in(sampler)) * CURSOR_ALPHA_10

\* The blink without its fade-in ramp.
BlinkingAlphaAt_NoFadeIn(sampler) ==
    (SmoothDen - slope_out(sampler)) * CURSOR_ALPHA_10

\* blinking_alpha as a function of the sampler, numerator over 10 * SmoothDen.
BlinkingAlphaAt(sampler) ==
    (SmoothDen - slope_out(sampler) + slope_in(sampler)) * CURSOR_ALPHA_10

\* The sampler without the wrap at the end of the period.
Sampler_NoWrap(time, start) == time - start

Sampler(time, start) == (time - start) % BLINK_PERIOD

blinking_alpha(time, start) == BlinkingAlphaAt(Sampler(time, start))

\* The mix with its two ends exchanged.
Alpha_Swapped(time, start, nb) ==
    Mix(SELECTION_ALPHA_10 * SmoothDen, blinking_alpha(time, start), nb)

\* alpha, numerator over AlphaDen.
Alpha(time, start, nb) ==
    Mix(blinking_alpha(time, start), SELECTION_ALPHA_10 * SmoothDen, nb)

CursorAlpha == CURSOR_ALPHA_10 * SmoothDen * NbOne
SelectionAlpha == SELECTION_ALPHA_10 * SmoothDen * NbOne

(* ------------------------------- state --------------------------------- *)

VARIABLES
    now,                \* the clock read by timer.now() and by the shader
    start_time,         \* view.start_time
    position,           \* position animation (two axes)
    width,              \* width animation
    ascender,           \* ascender animation
    descender,          \* descender animation
    not_blinking,       \* not_blinking animation
    out_position,       \* frp output position
    out_width,          \* frp output width
    position_target,    \* frp output position_target
    width_target,       \* frp output width_target
    display_object,     \* model.display_object position
    right_side_x2,      \* twice model.right_side position x
    view_size_x,        \* model.view.size.x
    view_x2,            \* twice model.view position x
    view_not_blinking,  \* model.view.not_blinking
    view_size_y,        \* model.view.size.y
    view_y2,            \* twice model.view position y
    attached_glyphs,    \* the list last given to set_attached_glyphs
    alive_glyphs,       \* the glyphs not dropped yet (upgrade succeeds)
    rhs_last_glyph_x2,  \* twice the value on_change remembers, <<>> before the first
    right_side_of_last_attached_glyph_x2,  \* twice the frp output
    rhs_fired,          \* emissions of that output during the last event
    view_color_rgb,     \* model.view.color_rgb
    iter,               \* sprite demo: the frame counter
    sprites,            \* sprite demo: the length of the sprite list
    sprites_layout,     \* sprite demo: <<length, time>> of the last repositioning
    frozen,             \* sprite demo: the frozen flag of the last frame
    sprite1_y2,         \* sprite demo: twice the y of sprite1
    time_ms,            \* sprite demo: the time given to the last frame
    tuple,              \* the tuple field_at is called on
    field_index,        \* the index I of field_at::<I>
    field,              \* <<the field returned>>, <<>> before the call
    alpha,              \* the alpha last computed by the shape
    ev,                 \* the last input event
    settling            \* TRUE once the width inputs have ended

vars == <<now, start_time, position, width, ascender, descender, not_blinking,
          out_position, out_width, position_target, width_target, display_object,
          right_side_x2, view_size_x, view_x2, view_not_blinking, view_size_y, view_y2,
          attached_glyphs, alive_glyphs, rhs_last_glyph_x2,
          right_side_of_last_attached_glyph_x2, rhs_fired, view_color_rgb,
          iter, sprites, sprites_layout, frozen, sprite1_y2, time_ms,
          tuple, field_index, field, alpha, ev, settling>>

\* The controller's state as one record, at the start of an event: the
\* output has not fired in it yet.
State ==
    [now |-> now, start_time |-> start_time, position |-> position, width |-> width,
     not_blinking |-> not_blinking, out_position |-> out_position, out_width |-> out_width,
     position_target |-> position_target, width_target |-> width_target,
     display_object |-> display_object, right_side_x2 |-> right_side_x2,
     view_size_x |-> view_size_x, view_x2 |-> view_x2,
     view_not_blinking |-> view_not_blinking,
     ascender |-> ascender, descender |-> descender,
     view_size_y |-> view_size_y, view_y2 |-> view_y2,
     attached_glyphs |-> attached_glyphs, alive_glyphs |-> alive_glyphs,
     rhs_last_glyph_x2 |-> rhs_last_glyph_x2,
     right_side_of_last_attached_glyph_x2 |-> right_side_of_last_attached_glyph_x2,
     view_color_rgb |-> view_color_rgb,
     rhs_fired |-> 0]

Is(s) ==
    /\ now = s.now
    /\ start_time = s.start_time
    /\ position = s.position
    /\ width = s.width
    /\ not_blinking = s.not_blinking
    /\ out_position = s.out_position
    /\ out_width = s.out_width
    /\ position_target = s.position_target
    /\ width_target = s.width_target
    /\ display_object = s.display_object
    /\ right_side_x2 = s.right_side_x2
    /\ view_size_x = s.view_size_x
    /\ view_x2 = s.view_x2
    /\ view_not_blinking = s.view_not_blinking
    /\ ascender = s.ascender
    /\ descender = s.descender
    /\ view_size_y = s.view_size_y
    /\ view_y2 = s.view_y2
    /\ attached_glyphs = s.attached_glyphs
    /\ alive_glyphs = s.alive_glyphs
    /\ rhs_last_glyph_x2 = s.rhs_last_glyph_x2
    /\ right_side_of_last_attached_glyph_x2 = s.right_side_of_last_attached_glyph_x2
    /\ rhs_fired = s.rhs_fired
    /\ view_color_rgb = s.view_color_rgb

Become(next) ==
    \E s \in {next} :
        /\ now' = s.now
        /\ start_time' = s.start_time
        /\ position' = s.position
        /\ width' = s.width
        /\ not_blinking' = s.not_blinking
        /\ out_position' = s.out_position
        /\ out_width' = s.out_width
        /\ position_target' = s.position_target
        /\ width_target' = s.width_target
        /\ display_object' = s.display_object
        /\ right_side_x2' = s.right_side_x2
        /\ view_size_x' = s.view_size_x
        /\ view_x2' = s.view_x2
        /\ view_not_blinking' = s.view_not_blinking
        /\ ascender' = s.ascender
        /\ descender' = s.descender
        /\ view_size_y' = s.view_size_y
        /\ view_y2' = s.view_y2
        /\ attached_glyphs' = s.attached_glyphs
        /\ alive_glyphs' = s.alive_glyphs
        /\ rhs_last_glyph_x2' = s.rhs_last_glyph_x2
        /\ right_side_of_last_attached_glyph_x2' = s.right_side_of_last_attached_glyph_x2
        /\ rhs_fired' = s.rhs_fired
        /\ view_color_rgb' = s.view_color_rgb
        /\ UNCHANGED <<tuple, field_index, field>>
        /\ UNCHANGED <<iter, sprites, sprites_layout, frozen, sprite1_y2, time_ms>>
        /\ alpha' = Alpha(s.now, s.start_time, s.view_not_blinking)

\* Selection::new: every animation and output starts at its default value.
NewState ==
    [now |-> 0, start_time |-> 0, position |-> Channel2(<<0, 0>>), width |-> Channel(0),
     not_blinking |-> Channel(0), out_position |-> <<0, 0>>, out_width |-> 0,
     position_target |-> <<0, 0>>, width_target |-> 0,
     display_object |-> <<0, 0>>, right_side_x2 |-> 0,
     view_size_x |-> 0, view_x2 |-> 0, view_not_blinking |-> 0,
     ascender |-> Channel(0), descender |-> Channel(0), view_size_y |-> 0, view_y2 |-> 0,
     attached_glyphs |-> <<>>, alive_glyphs |-> GlyphIds, rhs_last_glyph_x2 |-> <<>>,
     right_side_of_last_attached_glyph_x2 |-> 0, rhs_fired |-> 0, view_color_rgb |-> 0]

(* ----------------------------- frp network ----------------------------- *)

\* The height computed as ascender + descender.
UpdateHeight_Sum(s) ==
    LET height == s.ascender.value + s.descender.value
    IN  [s EXCEPT !.view_y2 = height + 2 * s.descender.value,
                  !.view_size_y = CURSOR_PADDING * 2 + height]

\* Height computation: all_with(ascender.value, descender.value).
UpdateHeight(s) ==
    LET height == s.ascender.value - s.descender.value
    IN  [s EXCEPT !.view_y2 = height + 2 * s.descender.value,
                  !.view_size_y = CURSOR_PADDING * 2 + height]

\* eval set_color: the colour is written to the view.
SetColor(s, color) == [s EXCEPT !.view_color_rgb = color]

SetAscender(s, a) == [s EXCEPT !.ascender = AnimSetTarget(@, a)]
SetDescender(s, d) == [s EXCEPT !.descender = AnimSetTarget(@, d)]

\* A glyph's position x and x_advance.
glyph_position_x(glyph) == glyph * GlyphStep
x_advance(glyph) == GlyphAdvance

\* The map closure resolving the first glyph of the list.
RhsLastGlyph_First(s) ==
    LET glyphs == s.attached_glyphs
    IN  IF Len(glyphs) > 0 /\ glyphs[1] \in s.alive_glyphs
        THEN LET glyph == glyphs[1]
                 glyph_right_x == glyph_position_x(glyph) + x_advance(glyph)
                 origin_x2 == 2 * s.display_object[1] + s.right_side_x2
             IN  origin_x2 + 2 * glyph_right_x
        ELSE 0

\* The map closure of rhs_last_glyph: glyphs.last() upgraded, or 0; twice
\* the value, as right_side's x is kept doubled.
RhsLastGlyph(s) ==
    LET glyphs == s.attached_glyphs
    IN  IF Len(glyphs) > 0 /\ glyphs[Len(glyphs)] \in s.alive_glyphs
        THEN LET glyph == glyphs[Len(glyphs)]
                 glyph_right_x == glyph_position_x(glyph) + x_advance(glyph)
                 origin_x2 == 2 * s.display_object[1] + s.right_side_x2
             IN  origin_x2 + 2 * glyph_right_x
        ELSE 0

\* on_change lets a value pass when it differs from the last one it let
\* pass; the first value passes.
OnChangeFires(last, v) == last = <<>> \/ last[1] # v

\* The output fed without the on_change filter.
EmitRhsLastGlyph_Unfiltered(s, v) ==
    [s EXCEPT !.rhs_last_glyph_x2 = <<v>>,
              !.right_side_of_last_attached_glyph_x2 = v,
              !.rhs_fired = @ + 1]

\* right_side_of_last_attached_glyph <+ rhs_last_glyph.on_change().
EmitRhsLastGlyph(s, v) ==
    IF OnChangeFires(s.rhs_last_glyph_x2, v)
    THEN [s EXCEPT !.rhs_last_glyph_x2 = <<v>>,
                   !.right_side_of_last_attached_glyph_x2 = v,
                   !.rhs_fired = @ + 1]
    ELSE s

\* on_position_or_glyphs_change: the attached glyphs are sampled and the
\* right side of the last one is recomputed.
OnPositionOrGlyphsChange(s) ==
    LET Emit(v) == EmitRhsLastGlyph(s, v) IN Apply(Emit, RhsLastGlyph(s))

SetAttachedGlyphs(s, glyphs) ==
    Apply(OnPositionOrGlyphsChange, [s EXCEPT !.attached_glyphs = glyphs])

\* A glyph is dropped by its owner: its weak references no longer upgrade.
DropGlyph(s, glyph) == [s EXCEPT !.alive_glyphs = @ \ {glyph}]

\* The display update computing the extent from the signed width.
UpdateDisplayObject_NoAbs(s) ==
    LET side == Signum(s.width.value)
        abs_width == Abs(s.width.value)
        w == Max(CURSOR_WIDTH, s.width.value - CURSORS_SPACING)
        view_width == CURSOR_PADDING * 2 + w
    IN  [s EXCEPT !.display_object = s.position.value,
                  !.right_side_x2 = abs_width,
                  !.view_size_x = view_width,
                  !.view_x2 = abs_width * side]

\* The display update placing the view to the right whatever the sign.
UpdateDisplayObject_NoSide(s) ==
    LET abs_width == Abs(s.width.value)
        w == Max(CURSOR_WIDTH, abs_width - CURSORS_SPACING)
        view_width == CURSOR_PADDING * 2 + w
    IN  [s EXCEPT !.display_object = s.position.value,
                  !.right_side_x2 = abs_width,
                  !.view_size_x = view_width,
                  !.view_x2 = abs_width]

\* Updating Display Object: all_with(position.value, width.value).
UpdateDisplayObject(s) ==
    LET side == Signum(s.width.value)
        abs_width == Abs(s.width.value)
        w == Max(CURSOR_WIDTH, abs_width - CURSORS_SPACING)
        view_width == CURSOR_PADDING * 2 + w
    IN  [s EXCEPT !.display_object = s.position.value,
                  !.right_side_x2 = abs_width,
                  !.view_size_x = view_width,
                  !.view_x2 = abs_width * side]

\* The weight's target with the two cases exchanged.
NotBlinkingTarget_Inverted(v) == IF v = 0 THEN NbOne ELSE 0

NotBlinkingTarget(v) == IF v = 0 THEN 0 ELSE NbOne

\* eval not_blinking.value: the weight is written to the view.
OnNotBlinkingValue(s) == [s EXCEPT !.view_not_blinking = s.not_blinking.value]

\* The width listener writing the weight's target straight to the view.
OnWidthValue_Snap(s) ==
    Apply(UpdateDisplayObject,
          [s EXCEPT !.out_width = s.width.value,
                    !.not_blinking = AnimSetTarget(@, NotBlinkingTarget(s.width.value)),
                    !.view_not_blinking = NotBlinkingTarget(s.width.value)])

\* The width listener driving the weight's target from the width's target.
OnWidthValue_FromTarget(s) ==
    Apply(UpdateDisplayObject,
          [s EXCEPT !.out_width = s.width.value,
                    !.not_blinking = AnimSetTarget(@, NotBlinkingTarget(s.width.target))])

\* Everything that listens to width.value.
OnWidthValue(s) ==
    Apply(UpdateDisplayObject,
          [s EXCEPT !.out_width = s.width.value,
                    !.not_blinking = AnimSetTarget(@, NotBlinkingTarget(s.width.value))])

\* Everything that listens to position.value, in the order of registration:
\* the glyph computation, the position output, the display update.
OnPositionValue(s) ==
    LET Output(s1) == [s1 EXCEPT !.out_position = s1.position.value]
    IN  Apply(UpdateDisplayObject, Apply(Output, Apply(OnPositionOrGlyphsChange, s)))

\* The reset writing the time of construction instead of the current time.
reset_blinking_animation_to_zero(s) == [s EXCEPT !.start_time = 0]

reset_blinking_animation_to_current_time(s) == [s EXCEPT !.start_time = s.now]

\* set_width reaching the width_target output but not the animation.
SetWidth_OutputOnly(s, w) == [s EXCEPT !.width_target = w]

\* set_width reaching the animation but not the width_target output.
SetWidth_AnimationOnly(s, w) == [s EXCEPT !.width = AnimSetTarget(@, w)]

SetWidth(s, w) ==
    [s EXCEPT !.width = AnimSetTarget(@, w), !.width_target = w]

\* skip_width_animation re-emitting the animated width without the skip.
SkipWidthAnimation_NoSkip(s) == OnWidthValue(s)

SkipWidthAnimation(s) == Apply(OnWidthValue, [s EXCEPT !.width = AnimSkip(@)])

\* set_position_target without the blink reset.
SetPositionTarget_NoReset(s, p) ==
    [s EXCEPT !.position = AnimSetTarget(@, p), !.position_target = p]

SetPositionTarget(s, p) ==
    Apply(reset_blinking_animation_to_current_time,
          [s EXCEPT !.position = AnimSetTarget(@, p), !.position_target = p])

\* skip_position_animation restarting the blink as well.
SkipPositionAnimation_Reset(s) ==
    Apply(reset_blinking_animation_to_current_time,
          Apply(OnPositionValue, [s EXCEPT !.position = AnimSkip2(@)]))

SkipPositionAnimation(s) == Apply(OnPositionValue, [s EXCEPT !.position = AnimSkip2(@)])

\* Selection::flip_sides, one input event after the other.
FlipStep1(s) == SetPositionTarget(s, VecAdd(s.out_position, <<s.width_target, 0>>))
\* The second event of flip_sides left out: the position is not snapped.
FlipStep2_NoSnap(s) == s

FlipStep2(s) == SkipPositionAnimation(s)
FlipStep3(s, w) == SetPositionTarget(s, VecAdd(s.position_target, <<w, 0>>))
FlipStep4(s) == SetWidth(s, -s.out_width)
FlipStep5(s) == SkipWidthAnimation(s)
FlipStep6(s) == SetWidth(s, -s.width_target)

FlipSides(s) ==
    LET Step3(s2) == FlipStep3(s2, s.width_target)
    IN  Apply(FlipStep6, Apply(FlipStep5, Apply(FlipStep4,
            Apply(Step3, Apply(FlipStep2, Apply(FlipStep1, s))))))

\* One tick of dt frames: the clock advances and every active animation
\* integrates dt frames and emits its value, in the order of construction.
TickPosition(s, dt) ==
    IF dt > 0 /\ AnimActive2(s.position)
    THEN Apply(OnPositionValue, [s EXCEPT !.position = AnimTick2(@, dt)])
    ELSE s
TickWidth(s, dt) ==
    IF dt > 0 /\ AnimActive(s.width)
    THEN Apply(OnWidthValue, [s EXCEPT !.width = AnimTick(@, dt)])
    ELSE s
TickAscender(s, dt) ==
    IF dt > 0 /\ AnimActive(s.ascender)
    THEN Apply(UpdateHeight, [s EXCEPT !.ascender = AnimTick(@, dt)])
    ELSE s
TickDescender(s, dt) ==
    IF dt > 0 /\ AnimActive(s.descender)
    THEN Apply(UpdateHeight, [s EXCEPT !.descender = AnimTick(@, dt)])
    ELSE s
TickNotBlinking(s, dt) ==
    IF dt > 0 /\ AnimActive(s.not_blinking)
    THEN Apply(OnNotBlinkingValue, [s EXCEPT !.not_blinking = AnimTick(@, dt)])
    ELSE s

Tick(s, dt) ==
    LET Clock(s0) == [s0 EXCEPT !.now = @ + dt * FrameMs]
        P(s1) == TickPosition(s1, dt)
        W(s2) == TickWidth(s2, dt)
        A(s3) == TickAscender(s3, dt)
        D(s4) == TickDescender(s4, dt)
        N(s5) == TickNotBlinking(s5, dt)
    IN  Apply(N, Apply(D, Apply(A, Apply(W, Apply(P, Clock(s))))))

(* ------------------------------- actions ------------------------------- *)

InRange(s) ==
    /\ Abs(s.position.value[1]) <= MaxPos
    /\ Abs(s.position.target[1]) <= MaxPos

\* init of the sprite demo: 100 sprites, none positioned, sprite1 at y = 5.
NewDemo ==
    [iter |-> 0, sprites |-> count, sprites_layout |-> <<>>, frozen |-> FALSE,
     sprite1_y2 |-> 10]

\* No tuple is looked at; the sprite demo is as init leaves it.
NoTuple ==
    /\ tuple = <<>>
    /\ field_index = 0
    /\ field = <<>>
    /\ iter = NewDemo.iter
    /\ sprites = NewDemo.sprites
    /\ sprites_layout = NewDemo.sprites_layout
    /\ frozen = NewDemo.frozen
    /\ sprite1_y2 = NewDemo.sprite1_y2
    /\ time_ms = 0

Init ==
    /\ Is(NewState)
    /\ alpha = Alpha(0, 0, 0)
    /\ ev = "new"
    /\ settling = FALSE
    /\ NoTuple

SetWidthIn(ws) ==
    \E w \in ws :
        /\ Become(SetWidth(State, w))
        /\ ev' = "set_width"

set_width ==
    /\ SetWidthIn(Widths)
    /\ UNCHANGED settling

set_position_target ==
    /\ \E p \in Positions : Become(SetPositionTarget(State, p))
    /\ ev' = "set_position_target"
    /\ UNCHANGED settling

skip_width_animation ==
    /\ Become(SkipWidthAnimation(State))
    /\ ev' = "skip_width_animation"
    /\ UNCHANGED settling

skip_position_animation ==
    /\ Become(SkipPositionAnimation(State))
    /\ ev' = "skip_position_animation"
    /\ UNCHANGED settling

flip_sides ==
    /\ InRange(FlipSides(State))
    /\ Become(FlipSides(State))
    /\ ev' = "flip_sides"
    /\ UNCHANGED settling

TickBy(dt, limit) ==
    /\ now + dt * FrameMs <= limit
    /\ ev' = "tick"
    /\ now' = now + dt * FrameMs
    /\ Become(Tick(State, dt))

tick ==
    /\ \E dt \in Dts : TickBy(dt, MaxTime)
    /\ UNCHANGED settling

set_ascender ==
    /\ \E a \in Ascenders : Become(SetAscender(State, a))
    /\ ev' = "set_ascender"
    /\ UNCHANGED settling

set_descender ==
    /\ \E d \in Descenders : Become(SetDescender(State, d))
    /\ ev' = "set_descender"
    /\ UNCHANGED settling

set_color ==
    /\ \E color \in Colors : Become(SetColor(State, color))
    /\ ev' = "set_color"
    /\ UNCHANGED settling

set_attached_glyphs ==
    /\ \E glyphs \in GlyphLists : Become(SetAttachedGlyphs(State, glyphs))
    /\ ev' = "set_attached_glyphs"
    /\ UNCHANGED settling

drop_glyph ==
    /\ \E glyph \in alive_glyphs : Become(DropGlyph(State, glyph))
    /\ ev' = "drop_glyph"
    /\ UNCHANGED settling

Next ==
    \/ set_width
    \/ set_position_target
    \/ skip_width_animation
    \/ skip_position_animation
    \/ flip_sides
    \/ tick

Spec == Init /\ [][Next]_vars

(* --------------------------- the height alone -------------------------- *)
(* The colour, ascender and descender inputs, with the width inputs that   *)
(* write the other component of the view's size.                           *)

HeightNext ==
    \/ set_color
    \/ set_ascender
    \/ set_descender
    \/ set_width
    \/ skip_width_animation
    \/ tick

SpecHeight == Init /\ [][HeightNext]_vars

(* ------------------------- the attached glyphs ------------------------- *)
(* Lists of glyphs are attached and glyphs dropped while the position      *)
(* moves.                                                                  *)

GlyphsNext ==
    \/ set_attached_glyphs
    \/ drop_glyph
    \/ set_position_target
    \/ skip_position_animation
    \/ tick

SpecGlyphs == Init /\ [][GlyphsNext]_vars

(* ---------------------------- the sprite demo -------------------------- *)
(* init, then one on_frame call per frame, the time advancing by one.      *)

Demo ==
    [iter |-> iter, sprites |-> sprites, sprites_layout |-> sprites_layout,
     frozen |-> frozen, sprite1_y2 |-> sprite1_y2]

on_frame ==
    /\ time_ms < MaxFrames
    /\ time_ms' = time_ms + 1
    /\ \E d \in {OnFrame(Demo, time_ms + 1)} :
           /\ iter' = d.iter
           /\ sprites' = d.sprites
           /\ sprites_layout' = d.sprites_layout
           /\ frozen' = d.frozen
           /\ sprite1_y2' = d.sprite1_y2
    /\ ev' = "on_frame"
    /\ UNCHANGED <<now, start_time, position, width, not_blinking, out_position, out_width,
                   position_target, width_target, display_object, right_side_x2,
                   view_size_x, view_x2, view_not_blinking, ascender, descender,
                   view_size_y, view_y2, attached_glyphs, alive_glyphs, rhs_last_glyph_x2,
                   right_side_of_last_attached_glyph_x2, rhs_fired, view_color_rgb,
                   tuple, field_index, field, alpha, settling>>

DemoNext == on_frame

SpecDemo == Init /\ [][DemoNext]_vars

(* ------------------------- field access on tuples ---------------------- *)
(* field_at::<I> is called once on every tuple and every index below its   *)
(* arity.                                                                  *)

TupleInit ==
    /\ Is(NewState)
    /\ alpha = Alpha(0, 0, 0)
    /\ ev = "new"
    /\ settling = FALSE
    /\ iter = NewDemo.iter
    /\ sprites = NewDemo.sprites
    /\ sprites_layout = NewDemo.sprites_layout
    /\ frozen = NewDemo.frozen
    /\ sprite1_y2 = NewDemo.sprite1_y2
    /\ time_ms = 0
    /\ tuple \in Tuples
    /\ field_index \in 0..(Len(tuple) - 1)
    /\ field = <<>>

field_at ==
    /\ ev = "new"
    /\ field' = <<TupleFieldAt(tuple, field_index)>>
    /\ ev' = "field_at"
    /\ UNCHANGED <<now, start_time, position, width, not_blinking, out_position, out_width,
                   position_target, width_target, display_object, right_side_x2,
                   view_size_x, view_x2, view_not_blinking, ascender, descender,
                   view_size_y, view_y2, attached_glyphs, alive_glyphs, rhs_last_glyph_x2,
                   right_side_of_last_attached_glyph_x2, rhs_fired, tuple, field_index,
                   view_color_rgb, iter, sprites, sprites_layout, frozen, sprite1_y2,
                   time_ms, alpha, settling>>

TupleNext == field_at

SpecTuple == TupleInit /\ [][TupleNext]_vars

(* ----------------------- the alpha function alone ---------------------- *)
(* The shape is evaluated for every elapsed time up to MaxElapsed, two     *)
(* start times and every weight.                                           *)

StartTimes == {0, FrameMs}

ShapeInit ==
    /\ \E st \in StartTimes, e \in 0..MaxElapsed, nb \in 0..NbOne :
           Is([NewState EXCEPT !.start_time = st, !.now = st + e, !.view_not_blinking = nb])
    /\ alpha = -1
    /\ ev = "new"
    /\ settling = FALSE
    /\ NoTuple

shade ==
    /\ ev = "new"
    /\ alpha' = Alpha(now, start_time, view_not_blinking)
    /\ ev' = "shade"
    /\ UNCHANGED <<now, start_time, position, width, not_blinking, out_position, out_width,
                   position_target, width_target, display_object, right_side_x2,
                   view_size_x, view_x2, view_not_blinking, ascender, descender,
                   view_size_y, view_y2, attached_glyphs, alive_glyphs, rhs_last_glyph_x2,
                   right_side_of_last_attached_glyph_x2, rhs_fired, tuple, field_index,
                   field, view_color_rgb, iter, sprites, sprites_layout, frozen,
                   sprite1_y2, time_ms, settling>>

ShapeNext == shade

SpecShape == ShapeInit /\ [][ShapeNext]_vars

(* ------------------- the end of the width inputs ----------------------- *)
(* Any inputs up to the clock value SettleDeadline, then one last          *)
(* set_width with a nonzero width, then no width input any more: only      *)
(* position inputs, skips and frames.                                      *)

SettleDeadline == FrameMs
SettleMaxTime == SettleDeadline + SettleFrames * FrameMs

before_settling ==
    /\ ~settling
    /\ \/ set_width
       \/ set_position_target
       \/ skip_width_animation
       \/ skip_position_animation
       \/ flip_sides
       \/ (\E dt \in Dts : TickBy(dt, SettleDeadline)) /\ UNCHANGED settling

last_set_width ==
    /\ ~settling
    /\ SetWidthIn(Widths \ {0})
    /\ settling' = TRUE

after_settling ==
    /\ settling
    /\ \/ set_position_target
       \/ skip_width_animation
       \/ skip_position_animation

frame ==
    /\ settling
    /\ TickBy(1, SettleMaxTime)
    /\ UNCHANGED settling

idle_frame ==
    /\ settling
    /\ TickBy(0, SettleMaxTime)
    /\ UNCHANGED settling

SettleNext ==
    \/ before_settling
    \/ last_set_width
    \/ after_settling
    \/ frame
    \/ idle_frame

SpecSettle == Init /\ [][SettleNext]_vars /\ WF_vars(frame)

(* ----------------------- the end of all inputs -------------------------- *)
(* Any inputs up to the clock value SettleDeadline, then one last          *)
(* set_width or set_position_target, then frames only.                     *)

last_set_width_any ==
    /\ ~settling
    /\ SetWidthIn(Widths)
    /\ settling' = TRUE

last_set_position_target ==
    /\ ~settling
    /\ \E p \in Positions : Become(SetPositionTarget(State, p))
    /\ ev' = "set_position_target"
    /\ settling' = TRUE

RestNext ==
    \/ before_settling
    \/ last_set_width_any
    \/ last_set_position_target
    \/ frame
    \/ idle_frame

SpecRest == Init /\ [][RestNext]_vars /\ WF_vars(frame)

(* ============================== properties ============================= *)

\* The horizontal interval drawn for a state: from the display object's x
\* (the animated position) over the signed animated width.
RenderedInterval(s) == {s.display_object[1], s.display_object[1] + s.view_x2}

\* C1: calling flip_sides twice in a row returns position_target and
\* width_target to the values they had before the first call.
C1_FlipTwiceRestoresTargets ==
    LET s2 == FlipSides(FlipSides(State))
    IN  /\ s2.position_target = position_target
        /\ s2.width_target = width_target

\* C2: the rendered horizontal interval is the same immediately after one
\* flip_sides call as immediately before it, animations in flight or not.
C2_FlipPreservesInterval ==
    RenderedInterval(FlipSides(State)) = RenderedInterval(State)

\* C3: after one flip_sides call position_target is the old position_target
\* shifted by (w, 0), w the width_target read at the start of the call, and
\* width_target is the negation of the old width_target.
C3_FlipShiftsAndNegatesTargets ==
    LET s1 == FlipSides(State)
    IN  /\ s1.position_target = VecAdd(position_target, <<width_target, 0>>)
        /\ s1.width_target = -width_target

\* C4: immediately after any set_position_target, also those issued inside
\* flip_sides, start_time equals the clock time of that event.
C4_PositionTargetResetsStartTime ==
    /\ ev \in {"set_position_target", "flip_sides"} => start_time = now
    /\ \A p \in Positions : SetPositionTarget(State, p).start_time = now
    /\ FlipStep1(State).start_time = now

C4_Witness ==
    /\ ev \in {"set_position_target", "flip_sides"}
    /\ now > 0
    /\ start_time = now

\* C5 as stated: from any reachable state, after set_width(0) and then
\* set_position_target(p), not_blinking.target is 0, start_time is the
\* current time and alpha is CURSOR_ALPHA.
C5_Original ==
    \A p \in Positions :
        LET s2 == SetPositionTarget(SetWidth(State, 0), p)
        IN  /\ s2.not_blinking.target = 0
            /\ s2.start_time = s2.now
            /\ Alpha(s2.now, s2.start_time, s2.view_not_blinking) = CursorAlpha

\* C5 amended: after set_width(0) and then set_position_target(p), start_time
\* is the current time and blinking_alpha is CURSOR_ALPHA; not_blinking.target
\* is 0 exactly when the animated width is 0, and alpha is CURSOR_ALPHA when
\* the not_blinking weight is 0.
C5_Amended ==
    \A p \in Positions :
        LET s2 == SetPositionTarget(SetWidth(State, 0), p)
        IN  /\ s2.start_time = s2.now
            /\ blinking_alpha(s2.now, s2.start_time) * NbOne = CursorAlpha
            /\ (s2.not_blinking.target = 0) <=> (width.value = 0)
            /\ view_not_blinking = 0 =>
                   Alpha(s2.now, s2.start_time, s2.view_not_blinking) = CursorAlpha

C5_Witness ==
    /\ ev = "set_position_target"
    /\ \E p \in Positions : State = SetPositionTarget(SetWidth(State, 0), p)
    /\ now > 0
    /\ width.value = 0
    /\ not_blinking.target = 0
    /\ view_not_blinking = 0
    /\ alpha = CursorAlpha

\* C6: once the last set_width has set a nonzero width, alpha eventually
\* equals SELECTION_ALPHA and keeps that value from then on, whatever the
\* blink phase and whatever set_position_target resets follow.
C6_SettlesAtSelectionAlpha == settling ~> [](alpha = SelectionAlpha)

C6_Witness ==
    /\ settling
    /\ ev = "set_position_target"
    /\ now > SettleDeadline
    /\ alpha = SelectionAlpha
    /\ blinking_alpha(now, start_time) = CURSOR_ALPHA_10 * SmoothDen

\* C7: blinking_alpha depends on (time - start_time) mod BLINK_PERIOD only,
\* BLINK_PERIOD is 1000, the value at elapsed time t equals the value at
\* t + BLINK_PERIOD, and at phase 0 it is CURSOR_ALPHA.
C7_BlinkingAlphaPeriodic ==
    LET elapsed == now - start_time
    IN  /\ BLINK_PERIOD = 1000
        /\ blinking_alpha(now, start_time) = BlinkingAlphaAt(elapsed % 1000)
        /\ blinking_alpha(now + BLINK_PERIOD, start_time) = blinking_alpha(now, start_time)
        /\ elapsed % 1000 = 0 => blinking_alpha(now, start_time) = CURSOR_ALPHA_10 * SmoothDen
        /\ (ev = "shade" /\ view_not_blinking = 0) =>
               alpha = NbOne * BlinkingAlphaAt(elapsed % 1000)

C7_Witness ==
    /\ ev = "shade"
    /\ view_not_blinking = 0
    /\ now - start_time > BLINK_PERIOD
    /\ alpha > 0
    /\ alpha < CursorAlpha

\* The steepest change of blinking_alpha over one millisecond: smoothstep
\* has slope at most 3/2 per ramp duration.
MaxBlinkStep == ((3 * BLINK_SLOPE_OUT_DURATION * BLINK_SLOPE_OUT_DURATION) \div 2) * CURSOR_ALPHA_10

\* C8: blinking_alpha has no jump: it is CURSOR_ALPHA on the whole on plateau
\* [0, on], 0 on the whole off plateau [on+slope_out, on+slope_out+off], it
\* changes by at most MaxBlinkStep from one millisecond to the next, across
\* every phase boundary and across the wrap, and the value the fade-in ramp
\* reaches at the end of the period is the value at phase 0.
C8_BlinkingAlphaContinuous ==
    LET phase == Sampler(now, start_time)
        b == blinking_alpha(now, start_time)
    IN  /\ phase \in 0..BLINK_ON_DURATION => b = CURSOR_ALPHA_10 * SmoothDen
        /\ phase \in on_time..off_time => b = 0
        /\ Abs(blinking_alpha(now + 1, start_time) - b) <= MaxBlinkStep
        /\ BlinkingAlphaAt(BLINK_PERIOD) = BlinkingAlphaAt(0)
        /\ (ev = "shade" /\ view_not_blinking = 0) => alpha = NbOne * b

C8_Witness ==
    /\ ev = "shade"
    /\ view_not_blinking = 0
    /\ Sampler(now, start_time) = BLINK_PERIOD - 1
    /\ alpha < CursorAlpha
    /\ CursorAlpha - alpha <= NbOne * MaxBlinkStep

\* C9: alpha is the linear mix of blinking_alpha and SELECTION_ALPHA by
\* not_blinking: blinking_alpha at weight 0, SELECTION_ALPHA at weight 1
\* whatever the time, and between the two for a weight in between.
C9_AlphaIsLinearMix ==
    LET b == blinking_alpha(now, start_time)
        sel == SELECTION_ALPHA_10 * SmoothDen
    IN  ev = "shade" =>
            /\ alpha = NbOne * b + view_not_blinking * (sel - b)
            /\ view_not_blinking = 0 => alpha = NbOne * b
            /\ view_not_blinking = NbOne => alpha = SelectionAlpha
            /\ alpha >= NbOne * Min(b, sel)
            /\ alpha <= NbOne * Max(b, sel)

C9_Witness ==
    /\ ev = "shade"
    /\ view_not_blinking = 1
    /\ Sampler(now, start_time) = BLINK_ON_DURATION + 1
    /\ alpha > SelectionAlpha
    /\ alpha < NbOne * blinking_alpha(now, start_time)

\* C10: a set_width with a nonzero width, followed or not by
\* skip_width_animation, leaves the not_blinking weight written to the view
\* (and so alpha) as it was; the weight changes in ticks only, and while the
\* animated width is nonzero a tick never moves it away from 1.
C10_WidthStepKeepsWeight ==
    /\ [](\A w \in Widths \ {0} :
             /\ SetWidth(State, w).view_not_blinking = view_not_blinking
             /\ SkipWidthAnimation(SetWidth(State, w)).view_not_blinking = view_not_blinking)
    /\ [][/\ ev' \in {"set_width", "skip_width_animation"} =>
                 view_not_blinking' = view_not_blinking /\ alpha' = alpha
          /\ view_not_blinking' # view_not_blinking => ev' = "tick"
          /\ (ev' = "tick" /\ width'.value # 0) => view_not_blinking' >= view_not_blinking]_vars

C10_Witness ==
    /\ ev = "skip_width_animation"
    /\ width.value # 0
    /\ not_blinking.target = NbOne
    /\ view_not_blinking = 0
    /\ alpha = CursorAlpha

\* C11: after every change of the animated width, not_blinking.target is 0
\* when the animated width is 0 and 1 otherwise; it follows the animated
\* value and not width_target (a set_width alone leaves it as it was), and it
\* never has a value other than 0 or 1.
C11_WeightTargetFollowsAnimatedWidth ==
    /\ [](/\ not_blinking.target \in {0, NbOne}
          /\ (not_blinking.target = 0) <=> (width.value = 0)
          /\ \A w \in Widths : SetWidth(State, w).not_blinking.target = not_blinking.target)
    /\ [][/\ width'.value # width.value =>
                 not_blinking'.target = (IF width'.value = 0 THEN 0 ELSE NbOne)
          /\ ev' = "set_width" => not_blinking'.target = not_blinking.target]_vars

C11_Witness ==
    /\ ev = "tick"
    /\ width.target = 0
    /\ width.value # 0
    /\ not_blinking.target = NbOne

\* The extent drawn for an animated width.
RenderedExtent(w) == IF Abs(w) - CURSORS_SPACING > CURSOR_WIDTH
                     THEN Abs(w) - CURSORS_SPACING ELSE CURSOR_WIDTH

\* C12: after every update of the animated position or width the rendered
\* extent is max(CURSOR_WIDTH, |width| - CURSORS_SPACING) and the view's
\* width is that extent plus 2 * CURSOR_PADDING; the extent is never below
\* CURSOR_WIDTH. Before the first update the view's width is 0.
C12_ExtentClampedToCursorWidth ==
    /\ [](/\ view_size_x # 0 =>
                 /\ view_size_x = RenderedExtent(width.value) + 2 * CURSOR_PADDING
                 /\ view_size_x - 2 * CURSOR_PADDING >= CURSOR_WIDTH
          /\ SkipPositionAnimation(State).view_size_x =
                 RenderedExtent(width.value) + 2 * CURSOR_PADDING)
    /\ [][(out_position' # out_position \/ out_width' # out_width) =>
              view_size_x' = RenderedExtent(width'.value) + 2 * CURSOR_PADDING]_vars

C12_Witness ==
    /\ ev = "tick"
    /\ width.value < 0
    /\ Abs(width.value) - CURSORS_SPACING < CURSOR_WIDTH
    /\ view_size_x = CURSOR_WIDTH + 2 * CURSOR_PADDING

\* C13: the view's horizontal offset from the anchor is
\* sign(width) * |width| / 2: the rectangle of nominal width |width| reaches
\* from the anchor to the right for a positive animated width and to the
\* left for a negative one.
C13_ViewOffsetFollowsSign ==
    /\ view_x2 = Signum(width.value) * Abs(width.value)
    /\ width.value > 0 => view_x2 > 0 /\ view_x2 - Abs(width.value) = 0
    /\ width.value < 0 => view_x2 < 0 /\ view_x2 + Abs(width.value) = 0
    /\ SkipWidthAnimation(State).view_x2 = width.target

C13_Witness ==
    /\ ev = "tick"
    /\ width.value < 0
    /\ width.value # width.target
    /\ view_x2 = width.value

\* C14: after every update of the display objects, for a positive and for a
\* negative animated width, the x offset of right_side from the anchor is the
\* x offset of the right edge of the selection rectangle: the right edge of
\* the nominal rectangle (view centre plus |width| / 2) or the right edge of
\* the drawn one (view centre plus half the rendered extent).
C14_RightSideAtRightEdge ==
    \/ right_side_x2 = view_x2 + Abs(width.value)
    \/ view_size_x # 0 /\ right_side_x2 = view_x2 + (view_size_x - 2 * CURSOR_PADDING)

\* A channel at rest: at its target with zero velocity.
AtRest(ch) == ch.value = ch.target /\ ch.velocity = 0
AtRest2(ch) == ch.value = ch.target /\ ch.velocity = <<0, 0>>

\* C18: after skip_position_animation / skip_width_animation the animated
\* value is the target with zero velocity, and ticks of any dt leave the
\* channel exactly there until the next set_position_target / set_width.
C18_SkipHoldsValueAtTarget ==
    /\ [](/\ ev = "skip_width_animation" => AtRest(width) /\ out_width = width_target
          /\ ev = "skip_position_animation" =>
                 AtRest2(position) /\ out_position = position_target
          /\ \A dt \in Dts :
                 /\ LET s1 == SkipWidthAnimation(State)
                    IN  AtRest(s1.width) /\ Tick(s1, dt).width = s1.width
                 /\ LET s1 == SkipPositionAnimation(State)
                    IN  AtRest2(s1.position) /\ Tick(s1, dt).position = s1.position)
    /\ [][/\ (AtRest(width) /\ ev' \notin {"set_width", "flip_sides"}) => width' = width
          /\ (AtRest2(position) /\ ev' \notin {"set_position_target", "flip_sides"}) =>
                 position' = position]_vars

C18_Witness ==
    /\ ev = "tick"
    /\ now = FrameMs
    /\ width.target = WidthUnit
    /\ AtRest(width)
    /\ out_width = WidthUnit
    /\ ~AtRest(not_blinking)

C15_HeightFollowsAscenderAndDescender ==
    /\ [](/\ view_size_y # 0 =>
                 /\ view_size_y = 2 * CURSOR_PADDING + (ascender.value - descender.value)
                 /\ view_y2 = (ascender.value - descender.value) + 2 * descender.value
          /\ UpdateHeight(State).view_size_x = view_size_x)
    /\ [][/\ (ascender'.value # ascender.value \/ descender'.value # descender.value) =>
                 /\ view_size_y' = 2 * CURSOR_PADDING + (ascender'.value - descender'.value)
                 /\ view_y2' = ascender'.value + descender'.value
          /\ (width'.value = width.value /\ ev' \in {"tick", "set_ascender", "set_descender"}) =>
                 view_size_x' = view_size_x]_vars

C15_Witness ==
    /\ ev = "tick"
    /\ ascender.value > 0
    /\ ascender.value # ascender.target
    /\ descender.value < 0
    /\ view_size_y = 2 * CURSOR_PADDING + ascender.value - descender.value
    /\ view_y2 = ascender.value + descender.value
    /\ view_size_x > 2 * CURSOR_PADDING + CURSOR_WIDTH

\* The last reference of the attached list resolves to a live glyph.
LastGlyphResolves == Len(attached_glyphs) > 0 /\ attached_glyphs[Len(attached_glyphs)] \in alive_glyphs

\* C16: resolving the attached glyphs never fails: the last reference alone
\* is resolved; with an empty list or a stale last reference the computed
\* right side is 0, and the event goes on to update the position output and
\* the display object; stale references earlier in the list change nothing.
C16_StaleGlyphsResolveToZero ==
    /\ [](LET s1 == OnPositionOrGlyphsChange(State)
              n == Len(attached_glyphs)
          IN  /\ ~LastGlyphResolves =>
                     /\ s1.rhs_last_glyph_x2 = <<0>>
                     /\ s1.right_side_of_last_attached_glyph_x2 = 0
                     /\ SkipPositionAnimation(State).display_object = position.target
              /\ LastGlyphResolves =>
                     s1.rhs_last_glyph_x2 =
                         <<2 * display_object[1] + right_side_x2
                           + 2 * (attached_glyphs[n] * GlyphStep + GlyphAdvance)>>
              /\ n > 0 =>
                     RhsLastGlyph([State EXCEPT !.attached_glyphs = <<attached_glyphs[n]>>])
                         = RhsLastGlyph(State)
              /\ (ev \in {"set_attached_glyphs", "skip_position_animation"}
                  /\ ~LastGlyphResolves) =>
                     rhs_last_glyph_x2 = <<0>> /\ right_side_of_last_attached_glyph_x2 = 0)
    /\ [][(out_position' # out_position /\ ~LastGlyphResolves') =>
              /\ right_side_of_last_attached_glyph_x2' = 0
              /\ display_object' = position'.value]_vars

C16_Witness ==
    /\ ev = "skip_position_animation"
    /\ Len(attached_glyphs) = 2
    /\ attached_glyphs[1] \in alive_glyphs
    /\ attached_glyphs[2] \notin alive_glyphs
    /\ rhs_fired = 1
    /\ right_side_of_last_attached_glyph_x2 = 0
    /\ display_object = <<PosUnit, PosDy>>

\* C17: the right_side_of_last_attached_glyph output is on_change-filtered:
\* two successive recomputations with the same value emit once when the
\* value is new and not at all when it is the value emitted last; an event
\* emits at most once, every emission carries the recomputed value and
\* differs from the value emitted before it.
C17_OutputIsOnChangeFiltered ==
    /\ [](/\ rhs_last_glyph_x2 # <<>> =>
                 right_side_of_last_attached_glyph_x2 = rhs_last_glyph_x2[1]
          /\ \A v \in {0, RhsLastGlyph(State), 2 * (GlyphStep + GlyphAdvance)} :
                 LET s1 == EmitRhsLastGlyph(State, v)
                     s2 == EmitRhsLastGlyph(s1, v)
                 IN  /\ s2.rhs_fired = (IF rhs_last_glyph_x2 = <<v>> THEN 0 ELSE 1)
                     /\ s2.rhs_fired = s1.rhs_fired
                     /\ s2.right_side_of_last_attached_glyph_x2 = v
          /\ LET s1 == OnPositionOrGlyphsChange(State)
             IN  OnPositionOrGlyphsChange(s1).rhs_fired = s1.rhs_fired /\ s1.rhs_fired <= 1)
    /\ [][/\ rhs_fired' <= 1
          /\ rhs_fired' = 1 =>
                 /\ rhs_last_glyph_x2' # rhs_last_glyph_x2
                 /\ right_side_of_last_attached_glyph_x2' = rhs_last_glyph_x2'[1]
                 /\ rhs_last_glyph_x2 # <<>> =>
                        right_side_of_last_attached_glyph_x2'
                            # right_side_of_last_attached_glyph_x2
          /\ rhs_fired' = 0 =>
                 /\ rhs_last_glyph_x2' = rhs_last_glyph_x2
                 /\ right_side_of_last_attached_glyph_x2'
                        = right_side_of_last_attached_glyph_x2]_vars

C17_Witness ==
    /\ ev = "set_attached_glyphs"
    /\ LastGlyphResolves
    /\ rhs_fired = 0
    /\ right_side_of_last_attached_glyph_x2 > 0
    /\ rhs_last_glyph_x2 = <<RhsLastGlyph(State)>>

C21_GlyphSeesUpdatedDisplayObject ==
    (ev = "skip_position_animation" /\ LastGlyphResolves) =>
        right_side_of_last_attached_glyph_x2 =
            2 * display_object[1] + right_side_x2
            + 2 * (attached_glyphs[Len(attached_glyphs)] * GlyphStep + GlyphAdvance)

\* The interval shifted by d.
Shifted(interval, d) == {x + d : x \in interval}

\* C22 as stated: within flip_sides the position is shifted and snapped
\* before the width is negated, and after each of the six input events of
\* the call the interval spanned from the animated position by the signed
\* animated width equals the interval before the call.
C22_Original ==
    LET s1 == FlipStep1(State)
        s2 == FlipStep2(s1)
        s3 == FlipStep3(s2, width_target)
        s4 == FlipStep4(s3)
        s5 == FlipStep5(s4)
        s6 == FlipStep6(s5)
    IN  \A s \in {s1, s2, s3, s4, s5, s6} : RenderedInterval(s) = RenderedInterval(State)

\* C22 amended: the position is shifted and snapped (events 1 and 2) before
\* the width is negated and snapped (events 4 and 5). After event 1 the
\* interval is the one before the call; after events 2, 3 and 4 it is that
\* interval shifted by the width_target read at the start of the call; after
\* events 5 and 6 it reaches from the shifted position over the negated
\* animated width, which is the interval before the call exactly when the
\* animated width and width_target were equal before the call.
C22_Amended ==
    LET s1 == FlipStep1(State)
        s2 == FlipStep2(s1)
        s3 == FlipStep3(s2, width_target)
        s4 == FlipStep4(s3)
        s5 == FlipStep5(s4)
        s6 == FlipStep6(s5)
        before == RenderedInterval(State)
        x == display_object[1] + width_target
    IN  /\ s6 = FlipSides(State)
        /\ s1.position.value = position.value /\ s1.width.value = width.value
        /\ s2.position.value[1] = out_position[1] + width_target
        /\ s2.width.value = width.value /\ s4.width.value = width.value
        /\ s5.width.value = -width.value
        /\ s5.position.value = s2.position.value
        /\ RenderedInterval(s1) = before
        /\ display_object[1] = out_position[1] =>
               \A s \in {s2, s3, s4} : RenderedInterval(s) = Shifted(before, width_target)
        /\ \A s \in {s5, s6} : RenderedInterval(s) = {x, x - out_width}
        /\ (display_object[1] = out_position[1] /\ view_x2 = out_width) =>
               (RenderedInterval(s6) = before <=> out_width = width_target)

C22_Witness ==
    /\ ev = "flip_sides"
    /\ out_width # 0
    /\ out_width # width.target
    /\ display_object[1] # 0
    /\ display_object = position.value
    /\ view_x2 = out_width

\* C23: start_time is changed by set_position_target events only, those
\* inside flip_sides included: set_color, set_ascender, set_descender,
\* set_attached_glyphs, set_width, the two skips and the ticks leave it as it
\* was.
C23_OnlyPositionTargetResetsStartTime ==
    /\ [](/\ \A color \in Colors : SetColor(State, color).start_time = start_time
          /\ \A a \in Ascenders : SetAscender(State, a).start_time = start_time
          /\ \A d \in Descenders : SetDescender(State, d).start_time = start_time
          /\ \A glyphs \in GlyphLists : SetAttachedGlyphs(State, glyphs).start_time = start_time
          /\ \A w \in Widths : SetWidth(State, w).start_time = start_time
          /\ SkipPositionAnimation(State).start_time = start_time
          /\ SkipWidthAnimation(State).start_time = start_time
          /\ \A dt \in Dts : Tick(State, dt).start_time = start_time)
    /\ [][start_time' # start_time => ev' \in {"set_position_target", "flip_sides"}]_vars

C23_Witness ==
    /\ ev = "skip_position_animation"
    /\ display_object = <<PosUnit, PosDy>>
    /\ now > start_time
    /\ start_time > 0

\* C24: for every elapsed time blinking_alpha lies in [0, CURSOR_ALPHA]: the
\* fade-in ramp is nonzero only where the fade-out ramp has reached 1, so
\* 1 - slope_out + slope_in stays in [0, 1]; the final alpha lies between 0
\* and max(CURSOR_ALPHA, SELECTION_ALPHA) for a weight in [0, 1].
C24_AlphaWithinRange ==
    LET phase == (now - start_time) % BLINK_PERIOD
        b == blinking_alpha(now, start_time)
    IN  /\ b >= 0
        /\ b <= CURSOR_ALPHA_10 * SmoothDen
        /\ slope_in(phase) > 0 => slope_out(phase) = SmoothDen
        /\ SmoothDen - slope_out(phase) + slope_in(phase) \in 0..SmoothDen
        /\ ev = "shade" =>
               /\ alpha >= 0
               /\ alpha <= NbOne * SmoothDen
                           * (IF CURSOR_ALPHA_10 > SELECTION_ALPHA_10
                              THEN CURSOR_ALPHA_10 ELSE SELECTION_ALPHA_10)

C24_Witness ==
    /\ ev = "shade"
    /\ slope_in((now - start_time) % BLINK_PERIOD) > 0
    /\ slope_in((now - start_time) % BLINK_PERIOD) < SmoothDen
    /\ view_not_blinking > 0
    /\ view_not_blinking < NbOne
    /\ alpha > SelectionAlpha
    /\ alpha < CursorAlpha

\* C25: the target outputs mirror the animation targets: width_target is the
\* argument of the latest set_width and the width channel's target,
\* position_target is the argument of the latest set_position_target and the
\* position channel's target; skips and ticks change neither output.
C25_TargetOutputsMirrorTargets ==
    /\ [](/\ width_target = width.target
          /\ position_target = position.target
          /\ \A w \in Widths :
                 LET s1 == SetWidth(State, w)
                 IN  s1.width_target = w /\ s1.width.target = w
          /\ \A p \in Positions :
                 LET s1 == SetPositionTarget(State, p)
                 IN  s1.position_target = p /\ s1.position.target = p)
    /\ [][ev' \in {"skip_width_animation", "skip_position_animation", "tick"} =>
              width_target' = width_target /\ position_target' = position_target]_vars

C25_Witness ==
    /\ ev = "tick"
    /\ width_target = -WidthUnit
    /\ width.target = -WidthUnit
    /\ out_width # width_target
    /\ position_target = <<PosUnit, PosDy>>
    /\ out_position # position_target

\* C26: the sprite demo's frame counter cycles with period 700: after every
\* on_frame call 0 <= iter <= 699, and the phases follow in the order grow
\* (iter < 300), frozen pause (300 <= iter < 400), shrink (400 <= iter < 700),
\* reset (iter back to 0); the frozen flag is set exactly in the pause
\* phase, in which no sprite of the list is repositioned and the length of
\* the list does not change.
C26_FrameCounterCycles ==
    /\ [](/\ iter \in 0..699
          /\ ev = "on_frame" => (frozen <=> iter \in 300..399)
          /\ LET d == OnFrame(Demo, time_ms + 1)
             IN  d.frozen => d.sprites = sprites /\ d.sprites_layout = sprites_layout)
    /\ [][/\ iter' = (iter + 1) % 700
          /\ iter' \in 1..299 => sprites' = sprites + 100 /\ sprites_layout' = <<sprites', time_ms'>>
          /\ iter' \in 300..399 =>
                 /\ frozen'
                 /\ sprites' = sprites
                 /\ sprites_layout' = sprites_layout
          /\ iter' \in 400..699 =>
                 /\ ~frozen'
                 /\ sprites' = (IF sprites > 100 THEN sprites - 100 ELSE 0)
          /\ iter' = 0 => ~frozen' /\ iter = 699]_vars

C26_Witness ==
    /\ ev = "on_frame"
    /\ frozen
    /\ iter = 399
    /\ time_ms > 700
    /\ sprites = 29900
    /\ sprites_layout = <<29900, time_ms - 100>>

\* C27: the number of sprites in the list stays bounded: from the 100 of
\* init it never exceeds 100 + 299 * 100 = 30000, it is 0 whenever iter is
\* reset to 0, and popping in the shrink phase is safe when the list is
\* empty already.
C27_SpriteCountBounded ==
    /\ [](/\ sprites \in 0..30000
          /\ (ev = "on_frame" /\ iter = 0) => sprites = 0
          /\ Pop(0, 100) = 0)
    /\ [][(iter' \in 400..699 /\ sprites = 0) => sprites' = 0]_vars

C27_Witness ==
    /\ ev = "on_frame"
    /\ iter = 699
    /\ time_ms > 700
    /\ sprites = 0
    /\ ~frozen

====
